---- MODULE Spec2Model ----
(***************************************************************************)
(* Model of the Flourish Collective dashboard (src/app.py): the workbook   *)
(* extraction load_data, the numeric coercion safe_float, the metric       *)
(* lookups and aggregations of the pages, and the rerun/upload/cache       *)
(* lifecycle of the script.                                                *)
(*                                                                         *)
(* Cell values are records [k, n, s]: k = "nan" (empty cell / float NaN),  *)
(* k = "num" (a number, n in units of 1/Scale), k = "str" (text, s a       *)
(* sequence of one-character strings).                                     *)
(***************************************************************************)
EXTENDS Integers, Sequences, FiniteSets, TLC

VARIABLES
    template,       \* workbook at 'Flourish_Dashboard_Data_Template.xlsx'
    uploaded_file,  \* value of the sidebar file uploader (a workbook or None)
    cache,          \* st.cache_data store of load_data: key -> tables
    data,           \* module variable data of the last script run
    status,         \* how the last script run ended
    page,           \* sidebar radio selection
    view,           \* what the selected page computed in the last run
    event,          \* kind of the last event
    val,            \* safe_float argument val
    default,        \* safe_float argument default
    ret             \* safe_float return value

vars == <<template, uploaded_file, cache, data, status, page, view, event,
          val, default, ret>>

----------------------------------------------------------------------------
(* Bounds *)

Scale == 100        \* numbers are kept in units of 1/Scale
MaxLen == 3         \* longest cell text enumerated for safe_float
MaxBody == 2        \* rows of the varied block of an enumerated sheet
MaxGoals == 2       \* rows of an enumerated goals sheet

----------------------------------------------------------------------------
(* Cell values *)

NaN == [k |-> "nan", n |-> 0, s |-> <<>>]
Num(x) == [k |-> "num", n |-> x * Scale, s |-> <<>>]
Fixed(x) == [k |-> "num", n |-> x, s |-> <<>>]
Str(t) == [k |-> "str", n |-> 0, s |-> t]

\* pd.isna on a scalar
isna(v) == v.k = "nan"

----------------------------------------------------------------------------
(* Text *)

Upper == <<"A", "B", "C", "D", "E", "F", "G", "H", "I", "J", "K", "L", "M",
           "N", "O", "P", "Q", "R", "S", "T", "U", "V", "W", "X", "Y", "Z">>
LowerOf == <<"a", "b", "c", "d", "e", "f", "g", "h", "i", "j", "k", "l", "m",
             "n", "o", "p", "q", "r", "s", "t", "u", "v", "w", "x", "y", "z">>

\* str.lower on one character
LowerChar(c) ==
    IF \E i \in 1..Len(Upper) : Upper[i] = c
    THEN LowerOf[CHOOSE i \in 1..Len(Upper) : Upper[i] = c]
    ELSE c

\* str.lower
Lower(t) == [i \in 1..Len(t) |-> LowerChar(t[i])]

\* sub in t
Contains(t, sub) ==
    \E i \in 0..(Len(t) - Len(sub)) :
        \A j \in 1..Len(sub) : t[i + j] = sub[j]

Digits == <<"0", "1", "2", "3", "4", "5", "6", "7", "8", "9">>
IsDigit(c) == \E i \in 1..10 : Digits[i] = c
DigitVal(c) == (CHOOSE i \in 1..10 : Digits[i] = c) - 1

RECURSIVE StripLeft(_)
StripLeft(t) == IF t # <<>> /\ Head(t) = " " THEN StripLeft(Tail(t)) ELSE t

RECURSIVE StripRight(_)
StripRight(t) ==
    IF t # <<>> /\ t[Len(t)] = " "
    THEN StripRight(SubSeq(t, 1, Len(t) - 1))
    ELSE t

\* str.strip
Strip(t) == StripRight(StripLeft(t))

RECURSIVE DigitsVal(_)
DigitsVal(t) ==
    IF t = <<>> THEN 0
    ELSE DigitsVal(SubSeq(t, 1, Len(t) - 1)) * 10 + DigitVal(t[Len(t)])

Unsigned(t) == IF t # <<>> /\ Head(t) \in {"-", "+"} THEN Tail(t) ELSE t
Sign(t) == IF t # <<>> /\ Head(t) = "-" THEN -1 ELSE 1

AllDigits(u) == u # <<>> /\ \A i \in 1..Len(u) : IsDigit(u[i])

IsDecimalText(t) == AllDigits(Unsigned(Strip(t)))

IsNanText(t) == Lower(Unsigned(Strip(t))) = <<"n", "a", "n">>

\* float(v) raises ValueError
FloatRaises(v) == v.k = "str" /\ ~IsDecimalText(v.s) /\ ~IsNanText(v.s)

\* float(v) where it does not raise
\* the number a stripped decimal text denotes
Decimal(t) == Fixed(Sign(t) * DigitsVal(Unsigned(t)) * Scale)

Float(v) ==
    IF v.k # "str" THEN v
    ELSE IF IsNanText(v.s) THEN NaN
    ELSE Decimal(Strip(v.s))

----------------------------------------------------------------------------
(* Helper functions of the script *)

Raised == [k |-> "raise", n |-> 0, s |-> <<>>]
Unset == [k |-> "unset", n |-> 0, s |-> <<>>]

\* the try block of safe_float: its value, or Raised
safe_float_try(v, d) ==
    IF isna(v) THEN d
    ELSE IF FloatRaises(v) THEN Raised
    ELSE Float(v)

safe_float_no_except(v, d) == safe_float_try(v, d)

\* the except clause: a raise in the try block gives the default
Caught(tried, d) == IF tried = Raised THEN d ELSE tried

safe_float(v, d) == Caught(safe_float_try(v, d), d)

----------------------------------------------------------------------------
(* Inputs of the coercion *)

Alphabet == {"N", "A", "n", "a", "7", "-", " "}
Texts == UNION {[1..l -> Alphabet] : l \in 0..MaxLen}
CellValues == {NaN, Num(0), Num(125000), Fixed(50)} \cup {Str(t) : t \in Texts}
Defaults == {Num(0), Num(507000), Num(272)}

----------------------------------------------------------------------------
(* Workbooks *)

SheetNames == {"Dashboard_Data", "Monthly_Revenue", "Monthly_Expenses",
               "Community_Metrics", "Historical_Data", "Goals_2030"}

\* a sheet of a workbook: absent, or a rectangular grid of cells (rows of
\* equal length, as the reader returns them)
NoSheet == [present |-> FALSE, rows |-> <<>>]
Sheet(rows) == [present |-> TRUE, rows |-> rows]

\* a workbook file: missing (None for the uploader), or its sheets
NoFile == [exists |-> FALSE, sheets |-> [n \in SheetNames |-> NoSheet]]
Book(sheets) == [exists |-> TRUE, sheets |-> sheets]

\* texts pd.read_excel turns into NaN by default (those this alphabet writes)
NaTexts == {<<>>, <<"N", "A">>, <<"n", "a", "n">>, <<"N", "a", "N">>}

NaConvert(c) == IF c.k = "str" /\ c.s \in NaTexts THEN NaN ELSE c

\* pd.read_excel(file_path, sheet_name=name, header=None)
read_excel(file_path, name) ==
    IF ~file_path.exists THEN [err |-> "FileNotFoundError", df |-> <<>>]
    ELSE IF ~file_path.sheets[name].present THEN [err |-> "ValueError", df |-> <<>>]
    ELSE LET rows == file_path.sheets[name].rows
         IN  [err |-> "none",
              df |-> [i \in 1..Len(rows) |->
                        [j \in 1..Len(rows[i]) |-> NaConvert(rows[i][j])]]]

----------------------------------------------------------------------------
(* load_data *)

Months == <<"Jan", "Feb", "Mar", "Apr", "May", "Jun",
            "Jul", "Aug", "Sep", "Oct", "Nov", "Dec">>

tCategory == <<"C", "a", "t", "e", "g", "o", "r", "y">>
tMetric == <<"M", "e", "t", "r", "i", "c">>
tGoal == <<"G", "o", "a", "l">>

\* the six blocks of load_data: sheet read, df.iloc[start:stop, 0:len(columns)],
\* the column names, and whether the header literal is filtered out
Schemas == <<
    [sheet |-> "Dashboard_Data", table |-> "summary", start |-> 4, stop |-> 28,
     columns |-> <<"Metric", "Current", "Target", "Pct_Target", "Prior_Year",
                   "YoY_Change">>,
     header |-> tMetric, header_filter |-> FALSE],
    [sheet |-> "Monthly_Revenue", table |-> "revenue", start |-> 2, stop |-> 12,
     columns |-> <<"Category">> \o Months \o <<"YTD", "Budget", "Pct">>,
     header |-> tCategory, header_filter |-> TRUE],
    [sheet |-> "Monthly_Expenses", table |-> "expenses", start |-> 2, stop |-> 8,
     columns |-> <<"Category">> \o Months \o <<"YTD", "Budget", "Pct">>,
     header |-> tCategory, header_filter |-> TRUE],
    [sheet |-> "Community_Metrics", table |-> "community", start |-> 2, stop |-> 11,
     columns |-> <<"Metric">> \o Months,
     header |-> tMetric, header_filter |-> TRUE],
    [sheet |-> "Historical_Data", table |-> "historical", start |-> 2, stop |-> 17,
     columns |-> <<"Metric", "FY21", "FY22", "FY23", "FY24", "FY25">>,
     header |-> tMetric, header_filter |-> TRUE],
    [sheet |-> "Goals_2030", table |-> "goals", start |-> 2, stop |-> 7,
     columns |-> <<"Goal", "Target", "Current", "Pct_Complete", "Remaining">>,
     header |-> tGoal, header_filter |-> TRUE] >>

TableNames == {Schemas[i].table : i \in 1..Len(Schemas)}
SchemaOf(t) == Schemas[CHOOSE i \in 1..Len(Schemas) : Schemas[i].table = t]
KeyColumn(sc) == sc.columns[1]

Min(a, b) == IF a < b THEN a ELSE b

\* number of columns of a frame
Width(df) == IF df = <<>> THEN 0 ELSE Len(df[1])

\* the rows the filter of a block keeps
Keeps(sc, r) ==
    /\ ~isna(r.c[KeyColumn(sc)])
    /\ sc.header_filter => r.c[KeyColumn(sc)] # Str(sc.header)

\* a slice that keeps the title and header rows above the data range
SliceFromTop(df, sc) ==
    LET w == Min(Len(sc.columns), Width(df))
    IN  [i \in 1..Min(sc.stop, Len(df)) |->
            [index |-> i - 1, cells |-> SubSeq(df[i], 1, w)]]

\* df.iloc[start:stop, 0:n].copy(), as rows that carry their frame index
Slice(df, sc) ==
    LET first == Min(sc.start, Len(df))
        w == Min(Len(sc.columns), Width(df))
    IN  [i \in 1..(Min(sc.stop, Len(df)) - first) |->
            [index |-> first + i - 1, cells |-> SubSeq(df[first + i], 1, w)]]

\* the position of each column name of each block
ColumnIndex ==
    [t \in TableNames |->
        [n \in {SchemaOf(t).columns[j] : j \in 1..Len(SchemaOf(t).columns)} |->
            CHOOSE j \in 1..Len(SchemaOf(t).columns) : SchemaOf(t).columns[j] = n]]

\* the sliced rows under the column names of the block
Named(sliced, sc) ==
    [i \in 1..Len(sliced) |->
        LET row == sliced[i]
        IN  [index |-> row.index,
             c |-> [n \in DOMAIN ColumnIndex[sc.table] |->
                     IF ColumnIndex[sc.table][n] <= Len(row.cells)
                     THEN row.cells[ColumnIndex[sc.table][n]]
                     ELSE NaN]]]

\* a block that tolerates a frame narrower than its column names
ExtractSheetLenient(df, sc) ==
    [err |-> "none",
     table |-> SelectSeq(Named(Slice(df, sc), sc), LAMBDA r : Keeps(sc, r))]

\* one block of load_data on the frame read from its sheet; assigning
\* .columns raises ValueError when the slice has fewer columns than names
ExtractSheet(df, sc) ==
    IF Min(Len(sc.columns), Width(df)) # Len(sc.columns)
    THEN [err |-> "ValueError", table |-> <<>>]
    ELSE [err |-> "none",
          table |-> SelectSeq(Named(Slice(df, sc), sc), LAMBDA r : Keeps(sc, r))]

\* a block of load_data after its read_excel call returned or raised
Extracted(read, sc) ==
    IF read.err # "none"
    THEN [err |-> read.err, table |-> <<>>]
    ELSE ExtractSheet(read.df, sc)

\* the block of load_data for schema sc
Block(file_path, sc) == Extracted(read_excel(file_path, sc.sheet), sc)

NoTables ==
    [summary |-> <<>>, revenue |-> <<>>, expenses |-> <<>>, community |-> <<>>,
     historical |-> <<>>, goals |-> <<>>]

\* the blocks in order: the first exception ends load_data, else the tables
\* are returned
Returned(blocks) ==
    IF \E i \in 1..Len(blocks) : blocks[i].err # "none"
    THEN [err |-> blocks[CHOOSE i \in 1..Len(blocks) :
                            /\ blocks[i].err # "none"
                            /\ \A j \in 1..(i - 1) : blocks[j].err = "none"].err,
          tables |-> NoTables]
    ELSE [err |-> "none",
          tables |-> [summary |-> blocks[1].table, revenue |-> blocks[2].table,
                      expenses |-> blocks[3].table, community |-> blocks[4].table,
                      historical |-> blocks[5].table, goals |-> blocks[6].table]]

\* load_data(file_path): the tables, or the first exception of a block
load_data(file_path) ==
    Returned(SubSeq([i \in 1..Len(Schemas) |-> Block(file_path, Schemas[i])],
                    1, Len(Schemas)))

----------------------------------------------------------------------------
(* Row labels the pages look up *)

tTOTAL == <<"T", "O", "T", "A", "L">>
tTotalRevenueYTD ==
    <<"T", "o", "t", "a", "l", " ", "R", "e", "v", "e", "n", "u", "e",
        " ", "Y", "T", "D">>
tTotalExpensesYTD ==
    <<"T", "o", "t", "a", "l", " ", "E", "x", "p", "e", "n", "s", "e",
        "s", " ", "Y", "T", "D">>
tActiveCommunitySize ==
    <<"A", "c", "t", "i", "v", "e", " ", "C", "o", "m", "m", "u", "n",
        "i", "t", "y", " ", "S", "i", "z", "e">>
tNumberOfDonors ==
    <<"N", "u", "m", "b", "e", "r", " ", "o", "f", " ", "D", "o", "n",
        "o", "r", "s">>
tAverageDonation ==
    <<"A", "v", "e", "r", "a", "g", "e", " ", "D", "o", "n", "a", "t",
        "i", "o", "n">>
tNewMembersAdded ==
    <<"N", "e", "w", " ", "M", "e", "m", "b", "e", "r", "s", " ", "A",
        "d", "d", "e", "d">>
tTotalRevenue ==
    <<"T", "o", "t", "a", "l", " ", "R", "e", "v", "e", "n", "u",
        "e">>
tTotalExpenses ==
    <<"T", "o", "t", "a", "l", " ", "E", "x", "p", "e", "n", "s", "e",
        "s">>
tNetIncome == <<"N", "e", "t", " ", "I", "n", "c", "o", "m", "e">>
tCumulativeGrants ==
    <<"C", "u", "m", "u", "l", "a", "t", "i", "v", "e", " ", "G", "r",
        "a", "n", "t", "s">>

----------------------------------------------------------------------------
(* Frame and series operations the pages use *)

\* table[table[key] == label]
Matching(table, key, label) ==
    SelectSeq(table, LAMBDA r : r.c[key] = Str(label))

\* table[table[key] != label]
NotMatching(table, key, label) ==
    SelectSeq(table, LAMBDA r : r.c[key] # Str(label))

\* table[col]
Column(table, col) == [i \in 1..Len(table) |-> table[i].c[col]]

\* series.fillna(v)
fillna(series, v) ==
    [i \in 1..Len(series) |-> IF isna(series[i]) THEN v ELSE series[i]]

\* a + b on cell values: numbers add, texts concatenate, a number and a
\* text raise TypeError
Add(a, b) ==
    IF a.k = "raise" \/ b.k = "raise" THEN Raised
    ELSE IF a.k = "nan" /\ b.k # "str" THEN NaN
    ELSE IF b.k = "nan" /\ a.k # "str" THEN NaN
    ELSE IF a.k = "num" /\ b.k = "num" THEN Fixed(a.n + b.n)
    ELSE IF a.k = "str" /\ b.k = "str" THEN Str(a.s \o b.s)
    ELSE Raised

\* a - b on the results of safe_float
Sub(a, b) ==
    IF a.k = "num" /\ b.k = "num" THEN Fixed(a.n - b.n) ELSE NaN

RECURSIVE Reduce(_)
Reduce(series) ==
    IF Len(series) = 1 THEN series[1]
    ELSE Add(Reduce(SubSeq(series, 1, Len(series) - 1)), series[Len(series)])

\* series.sum()
SeriesSum(series) == IF series = <<>> THEN Num(0) ELSE Reduce(series)

\* the metric lookup of the pages:
\* safe_float(t[t[key] == label][col].values[0] if len(t[t[key] == label]) > 0
\*            else norow, d)
\* rows[col].values[0] if len(rows) > 0 else norow
FirstOr(rows, col, norow) == IF Len(rows) > 0 THEN rows[1].c[col] ELSE norow

LastOr(rows, col, norow) == IF Len(rows) > 0 THEN rows[Len(rows)].c[col] ELSE norow

LookupLast(table, key, label, col, norow, d) ==
    safe_float(LastOr(Matching(table, key, label), col, norow), d)

Lookup(table, key, label, col, norow, d) ==
    safe_float(FirstOr(Matching(table, key, label), col, norow), d)

----------------------------------------------------------------------------
(* Ratios.  A quotient of two numbers is kept exactly, as its two terms. *)

Quot(num, den) == [k |-> "quot", num |-> num, den |-> den]
NanQuot == [k |-> "nan", num |-> 0, den |-> 1]
ZeroDivisionError == [k |-> "zerodiv", num |-> 0, den |-> 0]

\* the literal 0 of "... else 0" and the None of "... else None"
Zero == Quot(0, 1)
NoDelta == [k |-> "none", num |-> 0, den |-> 1]

\* v > 0 on a number: False on NaN
Positive(v) == v.k = "num" /\ v.n > 0

\* a / b * 100 on two floats, as the quotient (a * 100) / b
Percent(a, b) ==
    IF b.k = "num" /\ b.n = 0 THEN ZeroDivisionError
    ELSE IF a.k # "num" \/ b.k # "num" THEN NanQuot
    ELSE Quot(a.n, b.n)

\* a quotient lies in [0.0, 1.0]; NaN does not
InUnit(q) == q.k = "quot" /\ q.den > 0 /\ 0 <= q.num /\ q.num <= q.den

----------------------------------------------------------------------------
(* Number formatting *)

RECURSIVE Dec(_)
\* decimal digits of a natural number
Dec(x) ==
    IF x < 10 THEN <<Digits[x + 1]>> ELSE Dec(x \div 10) \o <<Digits[(x % 10) + 1]>>

Pad3(x) == <<Digits[(x \div 100) + 1], Digits[((x \div 10) % 10) + 1],
             Digits[(x % 10) + 1]>>

RECURSIVE Grouped(_)
\* the ',' grouping of a natural number
Grouped(x) ==
    IF x < 1000 THEN Dec(x) ELSE Grouped(x \div 1000) \o <<",">> \o Pad3(x % 1000)

Abs(x) == IF x < 0 THEN -x ELSE x

\* a non-negative quantity u / unit rounded to an integer, ties to even
RoundHalfEven(u, unit) ==
    IF 2 * (u % unit) > unit \/ (2 * (u % unit) = unit /\ (u \div unit) % 2 = 1)
    THEN (u \div unit) + 1
    ELSE u \div unit

SignText(x) == IF x < 0 THEN <<"-">> ELSE <<>>

\* format_currency(val), val a result of safe_float
format_currency(v) ==
    IF isna(v) \/ v.n = 0 THEN Str(<<"$", "0">>)
    ELSE Str(<<"$">> \o SignText(v.n) \o Grouped(RoundHalfEven(Abs(v.n), Scale)))

\* format_pct(val), val a result of safe_float
format_pct(v) ==
    IF isna(v) THEN Str(<<"0", "%">>)
    ELSE IF v.n < Scale
    THEN Str(SignText(v.n) \o Dec(RoundHalfEven(Abs(v.n) * 100, Scale)) \o <<"%">>)
    ELSE Str(Dec(RoundHalfEven(v.n, Scale)) \o <<"%">>)

----------------------------------------------------------------------------
(* Pages.  A page yields what it computed (view) and the tables as they     *)
(* are once it has run (data); view.raised tells an uncaught exception.     *)

Pages == {"Executive Summary", "Revenue Analysis", "Expense Analysis",
          "Community Growth", "Historical Trends", "2030 Goals"}

NoView == [page |-> "none", raised |-> FALSE]

\* Executive Summary: the KPI lookups and the two bar charts
\* the grouped bar chart of a table without its TOTAL row
BudgetBars(detail) ==
    [x |-> Column(detail, "Category"),
     ytd |-> fillna(Column(detail, "YTD"), Num(0)),
     budget |-> fillna(Column(detail, "Budget"), Num(0))]

\* f"{(ytd/target*100):.0f}% of target" if target > 0 else None
PctOfTarget(ytd, target) ==
    IF Positive(target) THEN Percent(ytd, target) ELSE NoDelta

\* the KPI cards from the looked-up metrics
Kpis(revenue_ytd, revenue_target, expense_ytd, expense_target, community_size) ==
    [revenue_ytd |-> revenue_ytd,
     revenue_target |-> revenue_target,
     expense_ytd |-> expense_ytd,
     expense_target |-> expense_target,
     net_income |-> Sub(revenue_ytd, expense_ytd),
     net_target |-> Sub(revenue_target, expense_target),
     community_size |-> community_size,
     revenue_delta |-> PctOfTarget(revenue_ytd, revenue_target),
     expense_delta |-> PctOfTarget(expense_ytd, expense_target)]

\* a KPI card raises ZeroDivisionError
KpisRaise(kpi) ==
    kpi.revenue_delta = ZeroDivisionError \/ kpi.expense_delta = ZeroDivisionError

\* if pct < 1: pct = pct * 100
Normalized(pct) ==
    IF pct.k = "num" /\ pct.n < Scale THEN Fixed(pct.n * 100) ELSE pct

\* min(pct/100, 1.0): the first argument unless 1.0 is less than it
Progress(pct) ==
    IF pct.k # "num" THEN NanQuot
    ELSE IF pct.n > 100 * Scale THEN Quot(1, 1)
    ELSE Quot(pct.n, 100 * Scale)

\* one goal of the progress loop, from its normalized pct
GoalShown(goal, pct) == [goal |-> goal, pct |-> pct, progress |-> Progress(pct)]

\* the progress loop over every goals row
GoalsProgress(goals) ==
    [i \in 1..Len(goals) |->
        GoalShown(goals[i].c["Goal"],
                  Normalized(safe_float(goals[i].c["Pct_Complete"], Num(0))))]

\* st.progress raises on a value outside [0.0, 1.0]
ProgressRaises(shown) == \E i \in 1..Len(shown) : ~InUnit(shown[i].progress)

\* the goals the loop reaches: up to the first whose st.progress raises
Reached(shown) ==
    IF ProgressRaises(shown)
    THEN SubSeq(shown, 1, CHOOSE i \in 1..Len(shown) :
                            /\ ~InUnit(shown[i].progress)
                            /\ \A j \in 1..(i - 1) : InUnit(shown[j].progress))
    ELSE shown

\* the page from its KPI cards, charts and goals loop, in that order
ExecutiveShown(kpi, revenue_bars, expense_bars, shown) ==
    [page |-> "Executive Summary",
     raised |-> KpisRaise(kpi) \/ ProgressRaises(shown),
     kpi |-> kpi,
     revenue_bars |-> revenue_bars,
     expense_bars |-> expense_bars,
     goals |-> IF KpisRaise(kpi) THEN <<>> ELSE Reached(shown)]

ExecutiveSummaryView(d) ==
    ExecutiveShown(
        Kpis(Lookup(d["summary"], "Metric", tTotalRevenueYTD, "Current",
                    Num(0), Num(0)),
             Lookup(d["summary"], "Metric", tTotalRevenueYTD, "Target",
                    Num(507000), Num(507000)),
             Lookup(d["summary"], "Metric", tTotalExpensesYTD, "Current",
                    Num(0), Num(0)),
             Lookup(d["summary"], "Metric", tTotalExpensesYTD, "Target",
                    Num(478848), Num(478848)),
             Lookup(d["summary"], "Metric", tActiveCommunitySize, "Current",
                    Num(0), Num(0))),
        BudgetBars(NotMatching(d["revenue"], "Category", tTOTAL)),
        BudgetBars(NotMatching(d["expenses"], "Category", tTOTAL)),
        GoalsProgress(d["goals"]))

ExecutiveSummary(d) == [view |-> ExecutiveSummaryView(d), data |-> d]

\* the summary metrics and monthly trend shared by the Revenue Analysis and
\* Expense Analysis pages: t the table, budget_default the Budget default
TotalsOf(t, total_row, detail, budget_default) ==
    [ytd_total |->
        IF Len(total_row) > 0
        THEN safe_float(total_row[1].c["YTD"], Num(0))
        ELSE SeriesSum(fillna(Column(t, "YTD"), Num(0))),
     budget_total |->
        IF Len(total_row) > 0
        THEN safe_float(total_row[1].c["Budget"], budget_default)
        ELSE SeriesSum(fillna(Column(t, "Budget"), Num(0))),
     detail |-> Column(detail, "Category"),
     monthly_totals |->
        [i \in 1..Len(Months) |->
            SeriesSum(fillna(Column(detail, Months[i]), Num(0)))]]

Totals(t, budget_default) ==
    TotalsOf(t, Matching(t, "Category", tTOTAL), NotMatching(t, "Category", tTOTAL),
             budget_default)

\* format_currency(ytd_total) and format_currency(budget_total) raise on a
\* text; a sum raises on a number next to a text
TotalsRaise(m) ==
    \/ m.ytd_total.k \in {"raise", "str"}
    \/ m.budget_total.k \in {"raise", "str"}
    \/ \E i \in 1..Len(Months) : m.monthly_totals[i].k = "raise"

\* the Revenue Detail table: display_df
DisplayDf(revenue) ==
    [i \in 1..Len(revenue) |->
        [index |-> revenue[i].index,
         c |-> [n \in {"Category", "YTD", "Budget", "Pct"} |->
                 IF n = "Category" THEN revenue[i].c[n]
                 ELSE IF n = "Pct" THEN format_pct(safe_float(revenue[i].c[n], Num(0)))
                 ELSE format_currency(safe_float(revenue[i].c[n], Num(0)))]]]

\* the formatting written into the frame it is given
FormatInPlace(revenue) ==
    [i \in 1..Len(revenue) |->
        [revenue[i] EXCEPT
            !.c["YTD"] = format_currency(safe_float(revenue[i].c["YTD"], Num(0))),
            !.c["Budget"] = format_currency(safe_float(revenue[i].c["Budget"], Num(0))),
            !.c["Pct"] = format_pct(safe_float(revenue[i].c["Pct"], Num(0)))]]

\* ytd_values.sum() of the YTD pie: revenue_detail['YTD'].fillna(0).sum()
DetailYtdSum(revenue) ==
    SeriesSum(fillna(Column(NotMatching(revenue, "Category", tTOTAL), "YTD"), Num(0)))

\* pct = (ytd_total / budget_total * 100) if budget_total > 0 else 0
PctOfBudget(ytd_total, budget_total) ==
    IF Positive(budget_total) THEN Percent(ytd_total, budget_total) ELSE Zero

\* the "% of Budget" card, reached when the two cards before it rendered
BudgetCard(totals) ==
    IF totals.ytd_total.k \in {"raise", "str"} \/ totals.budget_total.k \in {"raise", "str"}
    THEN NoDelta
    ELSE PctOfBudget(totals.ytd_total, totals.budget_total)

\* the Revenue Analysis page raises: in the totals, in the "% of Budget"
\* card, or at ytd_values.sum() > 0
RevenueRaises(revenue, totals) ==
    \/ TotalsRaise(totals)
    \/ BudgetCard(totals) = ZeroDivisionError
    \/ DetailYtdSum(revenue).k \in {"raise", "str"}

\* the page from its totals and from whether it raised before the detail
RevenueShown(revenue, totals, raised) ==
    [page |-> "Revenue Analysis",
     raised |-> raised,
     totals |-> totals,
     pct |-> BudgetCard(totals),
     display_df |-> IF raised THEN <<>> ELSE DisplayDf(revenue)]

RevenueWith(revenue, totals) ==
    RevenueShown(revenue, totals, RevenueRaises(revenue, totals))

RevenueAnalysisView(d) == RevenueWith(d["revenue"], Totals(d["revenue"], Num(507000)))

RevenueAnalysisNoCopy(d) ==
    [view |-> RevenueAnalysisView(d),
     data |-> [d EXCEPT !["revenue"] = FormatInPlace(d["revenue"])]]

\* Revenue Analysis works on data['revenue'].copy() and formats a .copy()
RevenueAnalysis(d) == [view |-> RevenueAnalysisView(d), data |-> d]

ExpenseWith(totals) ==
    [page |-> "Expense Analysis", raised |-> TotalsRaise(totals), totals |-> totals]

ExpenseAnalysisView(d) == ExpenseWith(Totals(d["expenses"], Num(478848)))

ExpenseAnalysis(d) == [view |-> ExpenseAnalysisView(d), data |-> d]

\* [safe_float(row[m].values[0]) for m in cols] if len(row) > 0 else [0]*len(cols)
ValuesOf(rows, cols) ==
    [i \in 1..Len(cols) |->
        IF Len(rows) > 0 THEN safe_float(rows[1].c[cols[i]], Num(0)) ELSE Num(0)]

RowValues(table, key, label, cols) == ValuesOf(Matching(table, key, label), cols)

GivingPctAlways(donors, comm_size) == Percent(donors, comm_size)

\* giving_pct = donors / comm_size * 100 if comm_size > 0 else 0
GivingPct(donors, comm_size) ==
    IF Positive(comm_size) THEN Percent(donors, comm_size) ELSE Zero

\* the page from its three looked-up metrics and the two monthly rows
CommunityShown(comm_size, donors, avg_donation, monthly_sizes, new_members) ==
    [page |-> "Community Growth",
     raised |-> GivingPct(donors, comm_size) = ZeroDivisionError,
     comm_size |-> comm_size,
     donors |-> donors,
     avg_donation |-> avg_donation,
     giving_pct |-> GivingPct(donors, comm_size),
     monthly_sizes |-> monthly_sizes,
     new_members |-> new_members]

CommunityGrowthView(d) ==
    CommunityShown(
        Lookup(d["summary"], "Metric", tActiveCommunitySize, "Current",
               Num(272), Num(0)),
        Lookup(d["summary"], "Metric", tNumberOfDonors, "Current",
               Num(162), Num(0)),
        Lookup(d["summary"], "Metric", tAverageDonation, "Current",
               Num(1279), Num(0)),
        RowValues(d["community"], "Metric", tActiveCommunitySize, Months),
        RowValues(d["community"], "Metric", tNewMembersAdded, Months))

CommunityGrowth(d) == [view |-> CommunityGrowthView(d), data |-> d]

Years == <<"FY21", "FY22", "FY23", "FY24", "FY25">>

HistoricalTrendsView(d) ==
    [page |-> "Historical Trends",
     raised |-> FALSE,
     revenues |-> RowValues(d["historical"], "Metric", tTotalRevenue, Years),
     expenses |-> RowValues(d["historical"], "Metric", tTotalExpenses, Years),
     net_income |-> RowValues(d["historical"], "Metric", tNetIncome, Years),
     comm_sizes |-> RowValues(d["historical"], "Metric", tActiveCommunitySize, Years),
     donors |-> RowValues(d["historical"], "Metric", tNumberOfDonors, Years),
     avg_donations |-> RowValues(d["historical"], "Metric", tAverageDonation, Years),
     grants |-> RowValues(d["historical"], "Metric", tCumulativeGrants, Years)]

HistoricalTrends(d) == [view |-> HistoricalTrendsView(d), data |-> d]

\* 2030 Goals: the coerced fields of each goal card
GoalsView(d) ==
    [page |-> "2030 Goals",
     raised |-> FALSE,
     cards |-> [i \in 1..Len(d["goals"]) |->
                 [goal |-> d["goals"][i].c["Goal"],
                  target |-> safe_float(d["goals"][i].c["Target"], Num(0)),
                  current |-> safe_float(d["goals"][i].c["Current"], Num(0)),
                  pct |-> Normalized(safe_float(d["goals"][i].c["Pct_Complete"], Num(0))),
                  remaining |-> safe_float(d["goals"][i].c["Remaining"], Num(0))]]]

Goals(d) == [view |-> GoalsView(d), data |-> d]

\* the if/elif chain over page
Render(pg, d) ==
    CASE pg = "Executive Summary" -> ExecutiveSummary(d)
      [] pg = "Revenue Analysis" -> RevenueAnalysis(d)
      [] pg = "Expense Analysis" -> ExpenseAnalysis(d)
      [] pg = "Community Growth" -> CommunityGrowth(d)
      [] pg = "Historical Trends" -> HistoricalTrends(d)
      [] pg = "2030 Goals" -> Goals(d)

----------------------------------------------------------------------------
(* The script: the cached load, the page, and how the run ends *)

EmptyCache == [path |-> [hit |-> FALSE, tables |-> NoTables], uploads |-> {}]

\* st.cache_data keys load_data on its argument: the path string for the
\* default file, the content for an uploaded file
CacheHit(ch, up) ==
    IF up.exists THEN \E e \in ch.uploads : e.key = up ELSE ch.path.hit

CacheValue(ch, up) ==
    IF up.exists THEN (CHOOSE e \in ch.uploads : e.key = up).tables ELSE ch.path.tables

CachePut(ch, up, tables) ==
    IF up.exists
    THEN [ch EXCEPT !.uploads = @ \cup {[key |-> up, tables |-> tables]}]
    ELSE [ch EXCEPT !.path = [hit |-> TRUE, tables |-> tables]]

\* a call of the cached load_data: the stored tables on a hit, else the
\* function runs
cached_load_data(ch, tmpl, up) ==
    IF CacheHit(ch, up)
    THEN [err |-> "none", tables |-> CacheValue(ch, up)]
    ELSE load_data(IF up.exists THEN up ELSE tmpl)

\* the end of a run whose load succeeded and whose page gave rendered
Shown(up, ch, tables, rendered) ==
    [data |-> rendered.data,
     status |-> IF rendered.view.raised THEN "page_error" ELSE "ok",
     cache |-> IF CacheHit(ch, up) THEN ch ELSE CachePut(ch, up, tables),
     view |-> rendered.view]

\* the script after the load: an exception of an upload is uncaught, one of
\* the default file ends in st.error and st.stop, else the page is rendered
AfterLoad(up, ch, pg, loaded) ==
    IF loaded.err # "none"
    THEN [data |-> NoTables,
          status |-> IF up.exists THEN "load_error" ELSE "stopped",
          cache |-> ch,
          view |-> NoView]
    ELSE Shown(up, ch, loaded.tables, Render(pg, loaded.tables))

\* one run of the script from top to bottom
RunScript(tmpl, up, ch, pg) == AfterLoad(up, ch, pg, cached_load_data(ch, tmpl, up))

Ran(tmpl, up, pg) ==
    \E run \in {RunScript(tmpl, up, cache, pg)} :
        /\ data' = run.data
        /\ status' = run.status
        /\ cache' = run.cache
        /\ view' = run.view
        /\ event' = "run"

----------------------------------------------------------------------------
(* Workbooks of the checks *)

tTitle == <<"F", "Y", "2", "6">>
tEvents == <<"E", "v", "e", "n", "t", "s">>
tSubtotal == <<"S", "u", "b", "t", "o", "t", "a", "l">>
tTBD == <<"T", "B", "D">>

MkRow(label, cell, n) == [j \in 1..n |-> IF j = 1 THEN label ELSE cell]

\* the data rows of a well-formed sheet
DataLabels ==
    [summary |-> <<tTotalRevenueYTD, tTotalExpensesYTD, tActiveCommunitySize,
                   tNumberOfDonors, tAverageDonation>>,
     revenue |-> <<tEvents, tTOTAL>>,
     expenses |-> <<tEvents, tTOTAL>>,
     community |-> <<tActiveCommunitySize, tNewMembersAdded>>,
     historical |-> <<tTotalRevenue, tTotalExpenses, tNetIncome>>,
     goals |-> <<tCumulativeGrants>>]

\* title rows, the header row, then the data rows, every number x
GoodRows(sc, x) ==
    [i \in 1..(sc.start + Len(DataLabels[sc.table])) |->
        IF i < sc.start THEN MkRow(Str(tTitle), NaN, Len(sc.columns))
        ELSE IF i = sc.start THEN MkRow(Str(sc.header), Str(tTitle), Len(sc.columns))
        ELSE MkRow(Str(DataLabels[sc.table][i - sc.start]), Num(x), Len(sc.columns))]

SchemaOfSheet(n) == Schemas[CHOOSE i \in 1..Len(Schemas) : Schemas[i].sheet = n]

GoodBook(x) == Book([n \in SheetNames |-> Sheet(GoodRows(SchemaOfSheet(n), x))])

BaseBook == GoodBook(100)

BookWith(n, sheet) == Book([BaseBook.sheets EXCEPT ![n] = sheet])

\* a sheet cut to w columns
CutTo(rows, w) == [i \in 1..Len(rows) |-> SubSeq(rows[i], 1, w)]

MissingSheetBook == BookWith("Monthly_Revenue", NoSheet)
ShortColumnsBook ==
    BookWith("Dashboard_Data", Sheet(CutTo(GoodRows(Schemas[1], 100), 5)))

\* the workbooks of the lifecycle specification
Catalogue == {BaseBook, GoodBook(200), MissingSheetBook, ShortColumnsBook}

\* the label a page looks up in each table
LookupLabel ==
    [summary |-> tActiveCommunitySize, revenue |-> tTOTAL, expenses |-> tTOTAL,
     community |-> tActiveCommunitySize, historical |-> tTotalRevenue,
     goals |-> tCumulativeGrants]

\* rows of the varied block: every kind of label with a number, and the
\* looked-up labels with every kind of cell
RowSpecs(sc) ==
    {[label |-> l, cell |-> Num(100)] :
        l \in {NaN, Str(sc.header), Str(tTOTAL), Str(tSubtotal), Str(tEvents),
               Str(LookupLabel[sc.table])}}
    \cup
    {[label |-> Str(l), cell |-> c] :
        l \in {LookupLabel[sc.table], tEvents},
        c \in {Num(250), NaN, Str(tTBD)}}

Bodies(sc) == UNION {[1..l -> RowSpecs(sc)] : l \in 0..MaxBody}

\* where the varied block sits and how wide the sheet is
Shapes(sc) ==
    {[pad |-> k, width |-> Len(sc.columns)] :
        k \in {0, sc.start - 1, sc.start, sc.stop - 1}}
    \cup {[pad |-> sc.start, width |-> Len(sc.columns) - 1],
          [pad |-> sc.start, width |-> Len(sc.columns) + 1]}

VariedRows(sc, shape, body) ==
    [i \in 1..(shape.pad + Len(body)) |->
        IF i <= shape.pad THEN MkRow(Str(tTitle), Num(100), shape.width)
        ELSE MkRow(body[i - shape.pad].label, body[i - shape.pad].cell, shape.width)]

\* the sheets tried in place of the sheet of sc: absent, or a varied block
VariedSheets(sc) ==
    {NoSheet} \cup
    {Sheet(VariedRows(sc, sh, body)) : sh \in Shapes(sc), body \in Bodies(sc)}

----------------------------------------------------------------------------
(* Workbooks with chosen cells: the scenario grid, goals with every kind of *)
(* Pct_Complete, and metrics and totals with every kind of denominator      *)

tCommunityContributions == <<"C", "o", "m", "m", "u", "n", "i", "t", "y", " ",
                             "C", "o", "n", "t", "r", "i", "b", "u", "t", "i",
                             "o", "n", "s">>
tIndentedEvents == <<" ", " ">> \o tEvents
tNAN == <<"N", "A", "N">>

\* a data row: its label, the cells given by column name, empty elsewhere
RowOf(sc, label, given) ==
    [j \in 1..Len(sc.columns) |->
        IF j = 1 THEN Str(label)
        ELSE IF sc.columns[j] \in DOMAIN given THEN given[sc.columns[j]]
        ELSE NaN]

\* the title rows and the header row of the sheet of sc, then the body
Framed(sc, body) ==
    Sheet([i \in 1..(sc.start + Len(body)) |->
            IF i < sc.start THEN MkRow(Str(tTitle), NaN, Len(sc.columns))
            ELSE IF i = sc.start
            THEN MkRow(Str(sc.header), Str(tTitle), Len(sc.columns))
            ELSE body[i - sc.start]])

\* the scenario grid as the Monthly_Revenue sheet
ScenarioBook ==
    BookWith("Monthly_Revenue",
        Framed(Schemas[2],
            <<RowOf(Schemas[2], tCommunityContributions,
                    [Budget |-> Num(375000), YTD |-> Num(125000)]),
              RowOf(Schemas[2], tIndentedEvents,
                    [Budget |-> Num(100000), YTD |-> Num(35000)]),
              RowOf(Schemas[2], tTOTAL,
                    [Budget |-> Num(475000), YTD |-> Num(160000)])>>))

\* Pct_Complete: missing, negative, a fraction, exactly 1, a percentage
\* below and above 100, and a text float() reads as NaN
PctValues == {NaN, Num(-5), Fixed(Scale \div 2), Num(1), Num(75), Num(150),
              Str(tNAN)}

GoalRow(pct) ==
    RowOf(Schemas[6], tCumulativeGrants,
          [Target |-> Num(1000), Current |-> Num(500), Pct_Complete |-> pct,
           Remaining |-> Num(500)])

GoalsSheets ==
    UNION {{Framed(Schemas[6], [i \in 1..l |-> GoalRow(f[i])]) :
                f \in [1..l -> PctValues]} : l \in 0..MaxGoals}

\* the cells a denominator is read from
DenCells == {NaN, Num(0), Num(-100), Num(250), Str(tTBD)}

SummaryLabels == {tTotalRevenueYTD, tTotalExpensesYTD, tActiveCommunitySize,
                  tNumberOfDonors}

\* the summary rows of the well-formed workbook with the row of one metric
\* given its Current and Target
SummaryRows(label, given) ==
    [i \in 1..Len(DataLabels["summary"]) |->
        IF DataLabels["summary"][i] = label
        THEN RowOf(Schemas[1], label, given)
        ELSE MkRow(Str(DataLabels["summary"][i]), Num(100), Len(Schemas[1].columns))]

\* the same rows without the row of one metric
SummaryWithout(label) ==
    SelectSeq(SummaryRows(label, [Current |-> NaN]), LAMBDA r : r[1] # Str(label))

SummarySheets ==
    {Framed(Schemas[1], SummaryRows(l, [Current |-> c, Target |-> t])) :
        l \in SummaryLabels, c \in DenCells, t \in DenCells}
    \cup {Framed(Schemas[1], SummaryWithout(l)) : l \in SummaryLabels}

\* a revenue sheet: one detail row, and no TOTAL row or one
TotalRows == {<<>>} \cup
    {<<RowOf(Schemas[2], tTOTAL, [YTD |-> y, Budget |-> b])>> :
        y \in DenCells, b \in DenCells}

RevenueSheets ==
    {Framed(Schemas[2],
            <<RowOf(Schemas[2], tEvents, [YTD |-> Num(250), Budget |-> b])>> \o total) :
        b \in DenCells, total \in TotalRows}

CaseBooks ==
    {ScenarioBook}
    \cup {BookWith("Goals_2030", sh) : sh \in GoalsSheets}
    \cup {BookWith("Dashboard_Data", sh) : sh \in SummarySheets}
    \cup {BookWith("Monthly_Revenue", sh) : sh \in RevenueSheets}

----------------------------------------------------------------------------
(* Specifications *)

appVars == <<template, uploaded_file, cache, data, status, page, view, event>>
callVars == <<val, default, ret>>

NotRun ==
    /\ cache = EmptyCache
    /\ data = NoTables
    /\ status = "start"
    /\ page = "Executive Summary"
    /\ view = NoView
    /\ event = "start"

NoCall == val = NaN /\ default = Num(0) /\ ret = Unset

\* the script runs with the widgets as they are
Rerun ==
    /\ Ran(template, uploaded_file, page)
    /\ UNCHANGED <<template, uploaded_file, page, callVars>>

\* the user picks another page in the sidebar radio
Navigate(p) ==
    /\ p # page
    /\ page' = p
    /\ Ran(template, uploaded_file, p)
    /\ UNCHANGED <<template, uploaded_file, callVars>>

\* the user uploads a workbook
UploadFile(b) ==
    /\ b # uploaded_file
    /\ uploaded_file' = b
    /\ Ran(template, b, page)
    /\ UNCHANGED <<template, page, callVars>>

\* the user removes the uploaded workbook
ClearUpload ==
    /\ uploaded_file.exists
    /\ uploaded_file' = NoFile
    /\ Ran(template, NoFile, page)
    /\ UNCHANGED <<template, page, callVars>>

\* the default workbook is replaced, written or deleted on disk
TemplateChanged(b) ==
    /\ b # template
    /\ template' = b
    /\ event' = "disk"
    /\ UNCHANGED <<uploaded_file, cache, data, status, page, view, callVars>>

Init ==
    /\ template \in Catalogue \cup {NoFile}
    /\ uploaded_file = NoFile
    /\ NotRun
    /\ NoCall

Next ==
    \/ Rerun
    \/ \E p \in Pages : Navigate(p)
    \/ \E b \in Catalogue : UploadFile(b)
    \/ ClearUpload
    \/ \E b \in Catalogue \cup {NoFile} : TemplateChanged(b)

\* the lifecycle of the script over a few workbooks
Spec == Init /\ [][Next]_vars

\* one sheet of a well-formed workbook is varied or absent; the workbook is
\* the default file or the uploaded one
InitBooks ==
    /\ \E i \in 1..Len(Schemas), source \in {"default", "upload"} :
          \E sheet \in VariedSheets(Schemas[i]) :
              /\ template = IF source = "default"
                            THEN BookWith(Schemas[i].sheet, sheet) ELSE NoFile
              /\ uploaded_file = IF source = "upload"
                                 THEN BookWith(Schemas[i].sheet, sheet) ELSE NoFile
    /\ NotRun
    /\ NoCall

\* the script runs once on the workbook with page p selected
Visit(p) ==
    /\ event = "start"
    /\ page' = p
    /\ Ran(template, uploaded_file, p)
    /\ UNCHANGED <<template, uploaded_file, callVars>>

NextBooks == \E p \in Pages : Visit(p)

\* one workbook, every page: extraction, lookups and aggregations
SpecBooks == InitBooks /\ [][NextBooks]_vars

\* one of the workbooks with chosen cells, as the default file or uploaded
InitCases ==
    /\ \E b \in CaseBooks, source \in {"default", "upload"} :
          /\ template = IF source = "default" THEN b ELSE NoFile
          /\ uploaded_file = IF source = "upload" THEN b ELSE NoFile
    /\ NotRun
    /\ NoCall

NextCases == \E p \in Pages : Visit(p)

\* one workbook with chosen cells, every page: flags, goals and ratios
SpecCases == InitCases /\ [][NextCases]_vars

InitCoerce ==
    /\ val \in CellValues
    /\ default \in Defaults
    /\ ret = Unset
    /\ template = NoFile
    /\ uploaded_file = NoFile
    /\ NotRun

\* safe_float(val, default) is called
CallSafeFloat ==
    /\ ret = Unset
    /\ ret' = safe_float(val, default)
    /\ UNCHANGED <<val, default, appVars>>

NextCoerce == CallSafeFloat

\* safe_float on every cell value
SpecCoerce == InitCoerce /\ [][NextCoerce]_vars

----------------------------------------------------------------------------
(* Claims *)

\* the workbook the script reads: the upload if there is one, else the default
Source == IF uploaded_file.exists THEN uploaded_file ELSE template

\* the last run got its tables (the page may still have raised)
Loaded == event = "run" /\ status \in {"ok", "page_error"}

\* the rows of the sheet a table is cut from, as the workbook holds them
SourceRows(t) == Source.sheets[SchemaOf(t).sheet].rows

\* the workbook lacks the file or the sheet of table t
Absent(b, t) == ~b.exists \/ ~b.sheets[SchemaOf(t).sheet].present

\* C1: when the workbook or one of its sheets is absent, the run raises no
\* error and the table of that sheet is empty, whichever source is used.
C1_MissingSourceDegrades ==
    event = "run" =>
        \A t \in TableNames :
            Absent(Source, t) => status = "ok" /\ data[t] = <<>>

\* the aggregate markers of the specification, lower case
AggregateMarkers == {<<"t", "o", "t", "a", "l">>,
                     <<"s", "u", "b", "t", "o", "t", "a", "l">>}

IsAggregateLabel(cell) ==
    cell.k = "str" /\ \E m \in AggregateMarkers : Contains(Lower(cell.s), m)

\* the test by which the pages tell the aggregate row: Category == 'TOTAL'
is_aggregate(r) == r.c["Category"] = Str(tTOTAL)

\* C2: every row of the data row range whose label matches an aggregate
\* marker, in any letter case, is in the extracted table and is told apart
\* as an aggregate row.
C2_AggregatesKeptAndFlagged ==
    Loaded =>
        \A t \in {"revenue", "expenses"} :
            \A i \in 1..Len(SourceRows(t)) :
                (/\ i - 1 >= SchemaOf(t).start
                 /\ i - 1 < SchemaOf(t).stop
                 /\ IsAggregateLabel(SourceRows(t)[i][1]))
                => \E k \in 1..Len(data[t]) :
                      data[t][k].index = i - 1 /\ is_aggregate(data[t][k])

\* the not-available values of the specification: empty, null, "NA" in any case
IsNotAvailable(v) ==
    \/ v.k = "nan"
    \/ v.k = "str" /\ (v.s = <<>> \/ Lower(v.s) = <<"n", "a">>)

\* C3: safe_float never raises; it returns the default for a cell that is
\* empty, null or "NA" in any letter case and for a cell float() does not
\* accept, and the number float() reads for every other cell.
C3_SafeFloat ==
    ret # Unset =>
        /\ ret # Raised
        /\ (IsNotAvailable(val) \/ FloatRaises(val)) => ret = default
        /\ (~IsNotAvailable(val) /\ ~FloatRaises(val)) => ret = Float(val)

C3_Witness ==
    /\ val = Str(<<"n", "A">>)
    /\ default = Num(272)
    /\ ret = Num(272)

\* C4: every row of every extracted table has a label that is not empty and
\* is not the header literal of its key column.
C4_LabelsNotEmptyNotHeader ==
    Loaded =>
        \A t \in TableNames :
            \A i \in 1..Len(data[t]) :
                /\ data[t][i].c[KeyColumn(SchemaOf(t))] # NaN
                /\ data[t][i].c[KeyColumn(SchemaOf(t))] # Str(<<>>)
                /\ data[t][i].c[KeyColumn(SchemaOf(t))] # Str(SchemaOf(t).header)

\* the rows of the summary table labelled Active Community Size
SizeRows == {i \in 1..Len(data["summary"]) :
                data["summary"][i].c["Metric"] = Str(tActiveCommunitySize)}

\* what a lookup of Active Community Size / Current has to give: the default
\* norow without a matching row, else the coerced cell of the first one
FirstSize(norow) ==
    IF SizeRows = {} THEN norow
    ELSE safe_float(
            data["summary"][CHOOSE i \in SizeRows : \A j \in SizeRows : i <= j]
                .c["Current"], Num(0))

\* C5: a metric lookup gives the caller's default when no row carries the
\* label and the coerced value of the first matching row in table order
\* when one or several do.
C5_LookupFirstOrDefault ==
    /\ (event = "run" /\ status = "ok" /\ page = "Community Growth")
        => view.comm_size = FirstSize(Num(272))
    /\ (event = "run" /\ status = "ok" /\ page = "Executive Summary")
        => view.kpi.community_size = FirstSize(Num(0))

C5_Witness ==
    /\ event = "run" /\ status = "ok" /\ page = "Community Growth"
    /\ Cardinality(SizeRows) = 2
    /\ \E i, j \in SizeRows :
          /\ i < j
          /\ data["summary"][i].c["Current"] = Str(tTBD)
          /\ data["summary"][j].c["Current"] = Num(250)
    /\ view.comm_size = Num(0)

\* C6: the rows of an extracted table are rows of the source grid inside the
\* data row range, in source order, none twice, each under its own label.
C6_RowsAreSubsequence ==
    Loaded =>
        \A t \in TableNames :
            /\ \A i \in 1..Len(data[t]) :
                  /\ data[t][i].index >= SchemaOf(t).start
                  /\ data[t][i].index < SchemaOf(t).stop
                  /\ data[t][i].index < Len(SourceRows(t))
                  /\ data[t][i].c[KeyColumn(SchemaOf(t))]
                        = SourceRows(t)[data[t][i].index + 1][1]
            /\ \A i, j \in 1..Len(data[t]) :
                  i < j => data[t][i].index < data[t][j].index

\* a sheet with a row past the range, and a row of the range filtered out
C6_Witness ==
    /\ Loaded
    /\ \E t \in TableNames :
          /\ Len(SourceRows(t)) > SchemaOf(t).stop
          /\ SourceRows(t)[SchemaOf(t).stop + 1][1] # NaN
          /\ Len(data[t]) = SchemaOf(t).stop - SchemaOf(t).start - 1
          /\ Len(data[t]) >= 2

RECURSIVE CoercedSum(_)
\* the sum of a series with every cell coerced by safe_float(cell, 0)
CoercedSum(series) ==
    IF series = <<>> THEN Num(0)
    ELSE Add(CoercedSum(SubSeq(series, 1, Len(series) - 1)),
             safe_float(series[Len(series)], Num(0)))

\* C7: on the Revenue and Expense Analysis pages a malformed cell of a month
\* column counts as 0 in the monthly totals and the page never raises.
C7_MalformedCellsCountAsZero ==
    (Loaded /\ page \in {"Revenue Analysis", "Expense Analysis"}) =>
        /\ status = "ok"
        /\ \A i \in 1..Len(Months) :
              view.totals.monthly_totals[i] =
                CoercedSum(Column(
                    NotMatching(data[IF page = "Revenue Analysis"
                                     THEN "revenue" ELSE "expenses"],
                                "Category", tTOTAL),
                    Months[i]))

\* a sheet of the workbook has rows and fewer columns than its block names
ShortSheet(b) ==
    /\ b.exists
    /\ \E i \in 1..Len(Schemas) :
          /\ b.sheets[Schemas[i].sheet].present
          /\ b.sheets[Schemas[i].sheet].rows # <<>>
          /\ Len(b.sheets[Schemas[i].sheet].rows[1]) < Len(Schemas[i].columns)

\* C8: a run on a workbook with a sheet narrower than the columns its block
\* addresses halts in an error; no table, default or page comes out of it.
C8_SchemaErrorIsFatal ==
    (event = "run" /\ ShortSheet(Source)) =>
        /\ status \in {"load_error", "stopped"}
        /\ data = NoTables
        /\ view = NoView
        /\ cache = EmptyCache

\* the default workbook has the narrow sheet: the bare except ends the run
C8_Witness ==
    /\ event = "run"
    /\ ~uploaded_file.exists
    /\ ShortSheet(template)
    /\ status = "stopped"

\* C9: every run that renders does so from the tables of the workbook as it
\* is at that run.
C9_TablesReflectSource ==
    (event = "run" /\ status = "ok") =>
        /\ load_data(Source).err = "none"
        /\ data = load_data(Source).tables

\* C10: two successive runs that load the same workbook leave the same
\* tables, whichever pages they render: extraction gives equal tables for
\* equal input and no page changes the tables it is given.
C10_TablesStable ==
    [][(/\ Loaded
        /\ event' = "run"
        /\ status' \in {"ok", "page_error"}
        /\ uploaded_file' = uploaded_file
        /\ template' = template)
       => data' = data]_vars

\* the Revenue Detail table is formatted, the revenue table is as extracted
C10_Witness ==
    /\ event = "run" /\ status = "ok" /\ page = "Revenue Analysis"
    /\ Len(view.display_df) > 0
    /\ view.display_df[1].c["YTD"] = Str(<<"$", "1", "0", "0">>)
    /\ data["revenue"][1].c["YTD"] = Num(100)
    /\ data = load_data(Source).tables

\* the indent prefix of the specification: two leading spaces
IndentPrefix == <<" ", " ">>

BeginsWith(t, pre) == Len(t) >= Len(pre) /\ SubSeq(t, 1, Len(pre)) = pre

TrueCell == [k |-> "bool", n |-> 1, s |-> <<>>]

\* a table row carries a true is_child flag
is_child(r) == "is_child" \in DOMAIN r.c /\ r.c["is_child"] = TrueCell

\* C11: every retained row is flagged is_child exactly when its untrimmed
\* label begins with the indent prefix; on the scenario grid the table has
\* 3 rows, "  Events" is a child, TOTAL is an aggregate and the lookup of
\* Budget in the row labelled TOTAL gives 475000.
C11_ChildRowsFlagged ==
    Loaded =>
        /\ \A t \in TableNames :
              \A i \in 1..Len(data[t]) :
                  data[t][i].c[KeyColumn(SchemaOf(t))].k = "str" =>
                      (is_child(data[t][i])
                          <=> BeginsWith(data[t][i].c[KeyColumn(SchemaOf(t))].s,
                                         IndentPrefix))
        /\ Source = ScenarioBook =>
              /\ Len(data["revenue"]) = 3
              /\ data["revenue"][2].c["Category"] = Str(tIndentedEvents)
              /\ is_child(data["revenue"][2])
              /\ is_aggregate(data["revenue"][3])
              /\ Lookup(data["revenue"], "Category", tTOTAL, "Budget", Num(0), Num(0))
                    = Num(475000)

\* the sheet of table t is there and ends before the data rows begin
NoRowsSelected(t) ==
    /\ ~Absent(Source, t)
    /\ Len(SourceRows(t)) <= SchemaOf(t).start

\* C12: when the data row range of a block selects no rows of its sheet,
\* the run raises no error, the table of the block is empty and the page
\* renders from its fallback values.
C12_EmptyRangeGivesEmptyTable ==
    event = "run" =>
        \A t \in TableNames :
            NoRowsSelected(t) =>
                /\ status = "ok"
                /\ data[t] = <<>>
                /\ (t = "community" /\ page = "Community Growth")
                      => view.monthly_sizes = [i \in 1..Len(Months) |-> Num(0)]
                /\ (t = "summary" /\ page = "Community Growth")
                      => view.comm_size = Num(272)

\* C13: on the Executive Summary page every goals row reaches the progress
\* bar with a value in [0, 1], and a goal whose Pct_Complete is the
\* fraction 1.0 is shown as 100% complete.
C13_ProgressWithinUnit ==
    (Loaded /\ page = "Executive Summary") =>
        /\ Len(view.goals) = Len(data["goals"])
        /\ \A i \in 1..Len(view.goals) :
              /\ InUnit(view.goals[i].progress)
              /\ data["goals"][i].c["Pct_Complete"] = Num(1)
                    => view.goals[i].pct = Num(100)

\* a ratio was evaluated on a strictly positive denominator
Evaluated(q, den) == q.k \in {"quot", "nan"} /\ Positive(den) /\ q # ZeroDivisionError

\* C14: no page divides by zero: each ratio is evaluated only on a strictly
\* positive denominator and is otherwise 0 (no delta on the KPI cards),
\* whether the denominator was read from a cell, defaulted or came from a
\* missing row.
C14_NoDivisionByZero ==
    Loaded =>
        /\ page = "Executive Summary" =>
              /\ IF Positive(view.kpi.revenue_target)
                 THEN Evaluated(view.kpi.revenue_delta, view.kpi.revenue_target)
                 ELSE view.kpi.revenue_delta = NoDelta
              /\ IF Positive(view.kpi.expense_target)
                 THEN Evaluated(view.kpi.expense_delta, view.kpi.expense_target)
                 ELSE view.kpi.expense_delta = NoDelta
        /\ (page = "Revenue Analysis" /\ status = "ok") =>
              IF Positive(view.totals.budget_total)
              THEN Evaluated(view.pct, view.totals.budget_total)
              ELSE view.pct = Zero
        /\ page = "Revenue Analysis" => view.pct # ZeroDivisionError
        /\ page = "Community Growth" =>
              /\ status = "ok"
              /\ IF Positive(view.comm_size)
                 THEN Evaluated(view.giving_pct, view.comm_size)
                 ELSE view.giving_pct = Zero

\* the community size cell holds 0 and the giving percentage is 0
C14_Witness ==
    /\ event = "run" /\ status = "ok" /\ page = "Community Growth"
    /\ \E i \in 1..Len(data["summary"]) :
          /\ data["summary"][i].c["Metric"] = Str(tActiveCommunitySize)
          /\ data["summary"][i].c["Current"] = Num(0)
    /\ view.comm_size = Num(0)
    /\ view.donors = Num(100)
    /\ view.giving_pct = Zero

====
